---- MODULE Spec2Model ----
(***************************************************************************)
(* rjq: a Redis job queue.  Producers call Queue::enqueue and Queue::drop, *)
(* workers call Queue::work, which pops job ids from the list              *)
(* "{name}:ids", loads the record "{name}:{id}", runs the handler in a     *)
(* detached thread and polls a channel for its outcome.                    *)
(*                                                                         *)
(* The store is Redis: every command is one atomic step, commands of       *)
(* different connections interleave freely, any command may fail with a    *)
(* connection error, and a key written by SETEX disappears when its TTL    *)
(* runs out.  Time is not measured: a worker may be arbitrarily slow, so   *)
(* a key may expire between any two steps.                                 *)
(***************************************************************************)
EXTENDS Integers, Sequences, FiniteSets, TLC

\* ------------------------------------------------------------------ bounds
MaxWorkers == 2     \* processes calling Queue::work
MaxIds     == 2     \* distinct job ids
MaxEnqueue == 2     \* calls of Queue::enqueue
MaxTimeout == 1     \* `timeout` argument of Queue::work, seconds
MaxFreq    == 2     \* `freq` argument of Queue::work, polls per second
MaxExpire  == 1     \* `expire` arguments, seconds
MaxWait    == 1     \* `wait` argument of Queue::work, seconds

Workers  == 1..MaxWorkers
JobIds   == 1..MaxIds
\* Queue never looks into a job's args: it is enough that every call of
\* enqueue passes a list no other call passes, here the call's number.
ArgsOf(call) == <<call>>
Expires  == 1..MaxExpire

\* --------------------------------------------------------------- data model
\* Option<String>: None is <<>>, Some(s) is <<s>>.
None    == <<>>
Some(s) == <<s>>
Options == {None, Some("r")}

\* enum Status.  A variant without a field leaves it at its default.
QUEUED      == [tag |-> "QUEUED",   val |-> None, message |-> "", backtrace |-> <<>>]
RUNNING(o)  == [tag |-> "RUNNING",  val |-> o,    message |-> "", backtrace |-> <<>>]
LOST        == [tag |-> "LOST",     val |-> None, message |-> "", backtrace |-> <<>>]
FINISHED(o) == [tag |-> "FINISHED", val |-> o,    message |-> "", backtrace |-> <<>>]
FAILED(m, b) == [tag |-> "FAILED",  val |-> None, message |-> m,  backtrace |-> b]

\* struct Job and Job::new (the id is the caller's or a fresh UUID, chosen
\* by Enqueue).
NoJob == [id |-> 0, status |-> QUEUED, args |-> <<>>]
JobNew(id, args) == [id |-> id, status |-> QUEUED, args |-> args]

\* The errors a handler returns (error_chain errors: a message and a cause).
HandlerErrors == {[msg |-> "boom", cause |-> "io"]}
NoError == [msg |-> "", cause |-> ""]
\* err.to_string(): the Display of the error is its message.
ErrToString(e) == e.msg
\* err.display_chain().to_string(): "Error: <msg>" and one "Caused by:" line.
DisplayChain(e) == <<"Error: ", e.msg, "Caused by: ", e.cause>>

\* JobResult: what the handler `fun` returns, Ok(o) or Err(e).
JobResults ==
    {[kind |-> "ok", val |-> o, err |-> NoError] : o \in Options}
    \cup {[kind |-> "err", val |-> None, err |-> e] : e \in HandlerErrors}
\* The handler has not returned (and may never: it hangs or panics).
NoResult == [kind |-> "none", val |-> None, err |-> NoError]

\* --------------------------------------------------------- serde_json (Job)
\* serde's externally tagged enum: a unit variant is a JSON string, a
\* variant with data is an object with the variant name as its one key.
OptToJson(o) == IF o = None THEN <<"null">> ELSE <<"str", o[1]>>
OptFromJson(j) == IF j[1] = "null" THEN None ELSE Some(j[2])

StatusToJson(s) ==
    CASE s.tag = "QUEUED"   -> <<"str", "QUEUED">>
      [] s.tag = "LOST"     -> <<"str", "LOST">>
      [] s.tag = "RUNNING"  -> <<"obj", "RUNNING", OptToJson(s.val)>>
      [] s.tag = "FINISHED" -> <<"obj", "FINISHED", OptToJson(s.val)>>
      [] s.tag = "FAILED"   ->
            <<"obj", "FAILED", [message |-> s.message, backtrace |-> s.backtrace]>>

StatusFromJson(j) ==
    IF j[1] = "str"
    THEN (IF j[2] = "QUEUED" THEN QUEUED ELSE LOST)
    ELSE CASE j[2] = "RUNNING"  -> RUNNING(OptFromJson(j[3]))
           [] j[2] = "FINISHED" -> FINISHED(OptFromJson(j[3]))
           [] j[2] = "FAILED"   -> FAILED(j[3].message, j[3].backtrace)

ToJson(job) ==
    [id |-> job.id, status |-> StatusToJson(job.status), args |-> job.args]
FromJson(j) ==
    [id |-> j.id, status |-> StatusFromJson(j.status), args |-> j.args]

\* ------------------------------------------------------------------- state
VARIABLES
    store,      \* "{name}:{id}" keys: id -> [json, ttl]; ttl = 0: no such key
    ids,        \* "{name}:ids": the pending list, entries [id, seq]; seq is
                \* the number of the enqueue call that pushed the entry
    used,       \* ids of the jobs created so far
    prod,       \* the producer inside Queue::enqueue; `dropped` is the
                \* number of the newest entry a Queue::drop has deleted
    args,       \* the arguments the workers call Queue::work with
    wk,         \* the workers inside Queue::work
    threads,    \* the handler threads: those still running, and those that
                \* returned while their channel had a receiver
    chans,      \* the channels whose receiver lives: channel -> messages
    reader      \* the last call of Queue::status or Queue::result

vars == <<store, ids, used, prod, args, wk, threads, chans, reader>>

Nil == [json |-> ToJson(NoJob), ttl |-> 0]
Exists(k) == store[k].ttl > 0

Terminal(s) == s.tag \in {"FINISHED", "FAILED", "LOST"}

\* What a call returns: Ok(..) or the kind of the error.
Reply(kind, val, message, backtrace) ==
    [kind |-> kind, val |-> val, message |-> message, backtrace |-> backtrace]
RedisError == Reply("Redis", None, "", <<>>)

\* A call of status or result: the function, the id, the reply of its GET
\* and what it returned; `again` says that the call before it was the same
\* call with the same reply of the GET; `since` turns FALSE when, after the
\* call, a worker claims an id or a record expires.
NoCall ==
    [fn |-> "", k |-> 0, json |-> None, reply |-> RedisError,
     again |-> FALSE, since |-> FALSE]
Touched == [reader EXCEPT !.since = FALSE]

\* The locals of one Queue::work: the claimed id (seq numbers its entry),
\* the Job, the polls made and the receiver.
Idle ==
    [pc |-> "idle", id |-> 0, seq |-> 0, job |-> NoJob, polls |-> 0, rx |-> 0]
Claiming == [Idle EXCEPT !.pc = "claim"]

\* Every worker runs the same program: one choice of the arguments of
\* Queue::work (after the unwrap_or defaults) for all of them.
WorkArgs ==
    [wait : 0..MaxWait, timeout : 0..MaxTimeout, freq : 0..MaxFreq,
     expire : Expires, fall : BOOLEAN, infinite : BOOLEAN]

Init ==
    /\ store = [k \in JobIds |-> Nil]
    /\ ids = <<>>
    /\ used = {}
    /\ prod = [pc |-> "idle", calls |-> 0, id |-> 0, dropped |-> 0]
    /\ args \in WorkArgs
    /\ args.wait > 0      \* with wait = 0 a worker takes the same steps but
                          \* ClaimTimeout: see SpecLive for that case
    /\ wk = [w \in Workers |-> Idle]
    /\ threads = {}
    /\ chans = [c \in {} |-> <<>>]
    /\ reader = NoCall

\* ------------------------------------------------------------------- Redis
\* (mutant) SET key value KEEPTTL: a key that exists keeps its TTL.
SetKeepTtl(k, json, ttl) ==
    [store EXCEPT ![k] = [json |-> json,
                          ttl |-> IF store[k].ttl > 0 THEN store[k].ttl ELSE ttl]]

\* SETEX key ttl value
SetEx(k, json, ttl) == [store EXCEPT ![k] = [json |-> json, ttl |-> ttl]]

\* The TTL of a key runs out and Redis deletes it.
Expire(k) ==
    /\ Exists(k)
    /\ store' = [store EXCEPT ![k] = Nil]
    /\ reader' = Touched
    /\ UNCHANGED <<ids, used, prod, args, wk, threads, chans>>

\* ---------------------------------------------------------- Queue::enqueue
\* Uuid::new_v4(): an id no job has had; here the least of them.
Fresh == JobIds \ used
Uuid == IF Fresh = {} THEN 0 ELSE CHOOSE k \in Fresh : \A j \in Fresh : k <= j

\* Job::new and the SETEX of the record.  `id` is Some(k) or None.
EnqueueSet(id, expire) ==
    /\ prod.pc = "idle"
    /\ prod.calls < MaxEnqueue
    /\ \E k \in JobIds :
          /\ IF id = None THEN k = Uuid ELSE k = id[1]
          /\ store' = SetEx(k, ToJson(JobNew(k, ArgsOf(prod.calls + 1))), expire)
          /\ used' = used \cup {k}
          /\ prod' = [prod EXCEPT !.pc = "push", !.calls = @ + 1, !.id = k]
    /\ UNCHANGED <<ids, args, wk, threads, chans, reader>>

\* (A SETEX that fails makes enqueue return the error with nothing written:
\* no step.)

\* RPUSH of the id, then Ok(job.id).
EnqueuePush ==
    /\ prod.pc = "push"
    /\ ids' = Append(ids, [id |-> prod.id, seq |-> prod.calls])
    /\ prod' = [prod EXCEPT !.pc = "idle", !.id = 0]
    /\ UNCHANGED <<store, used, args, wk, threads, chans, reader>>

\* The RPUSH fails: the record stays, its id is not pending.
EnqueuePushErr ==
    /\ prod.pc = "push"
    /\ prod' = [prod EXCEPT !.pc = "idle", !.id = 0]
    /\ UNCHANGED <<store, ids, used, args, wk, threads, chans, reader>>

\* ------------------------------------------------------------- Queue::drop
\* (mutant) FLUSHDB: the records go with the list.
DropRecords ==
    /\ prod.pc = "idle"
    /\ ids # <<>>
    /\ ids' = <<>>
    /\ store' = [k \in JobIds |-> Nil]
    /\ prod' = [prod EXCEPT !.dropped = ids[Len(ids)].seq]
    /\ UNCHANGED <<used, args, wk, threads, chans, reader>>

\* DEL "{name}:ids"
Drop ==
    /\ prod.pc = "idle"
    /\ ids # <<>>
    /\ ids' = <<>>
    /\ prod' = [prod EXCEPT !.dropped = ids[Len(ids)].seq]
    /\ UNCHANGED <<store, used, args, wk, threads, chans, reader>>

\* ------------------------------------------------------------- Queue::work
\* Client::open and get_connection, up to the loop.
StartWork(w) ==
    /\ wk[w].pc = "idle"
    /\ wk' = [wk EXCEPT ![w] = Claiming]
    /\ UNCHANGED <<store, ids, used, prod, args, threads, chans, reader>>

\* (mutant) a missed claim is always tried again.
MissedRetries(infinite) == Claiming

\* (mutant) a missed claim always ends the loop.
MissedBreaks(infinite) == [Idle EXCEPT !.pc = "ok"]

\* `if !infinite { break; } continue;` of a missed claim; break leads to Ok(()).
Missed(infinite) == IF infinite THEN Claiming ELSE [Idle EXCEPT !.pc = "ok"]

\* `?` on a store error: Queue::work returns Err.
Failed == [Idle EXCEPT !.pc = "err"]

\* (mutant) the rightmost entry: RPOP for LPOP.
PopRightmost(list) == Len(list)

\* The entry BLPOP takes from the list: the leftmost.
PopIndex(list) == 1

\* (mutant) LINDEX for LPOP: the entry is read and stays.
Peek(list, i) == list

Remove(list, i) == SubSeq(list, 1, i - 1) \o SubSeq(list, i + 1, Len(list))

\* (mutant) the next id is popped while the handler is supervised.
ClaimWhilePolling(w) ==
    /\ wk[w].pc \in {"claim", "poll"}
    /\ ids # <<>>
    /\ LET i == PopIndex(ids) IN
          /\ ids' = Remove(ids, i)
          /\ wk' = [wk EXCEPT ![w].pc = "load", ![w].id = ids[i].id,
                                 ![w].seq = ids[i].seq]
    /\ reader' = Touched
    /\ UNCHANGED <<store, used, prod, args, threads, chans>>

\* BLPOP returns [key, id]: the worker has claimed the id.
Claim(w) ==
    /\ wk[w].pc = "claim"
    /\ ids # <<>>
    /\ LET i == PopIndex(ids) IN
          /\ ids' = Remove(ids, i)
          /\ wk' = [wk EXCEPT ![w].pc = "load", ![w].id = ids[i].id,
                                 ![w].seq = ids[i].seq]
    /\ reader' = Touched
    /\ UNCHANGED <<store, used, prod, args, threads, chans>>

\* BLPOP returns nil after `wait` seconds on an empty list; a `wait` of 0
\* is no timeout to Redis: the BLPOP blocks until the list has an entry.
ClaimTimeout(w) ==
    /\ wk[w].pc = "claim"
    /\ ids = <<>>
    /\ args.wait > 0
    /\ wk' = [wk EXCEPT ![w] = Missed(args.infinite)]
    /\ UNCHANGED <<store, ids, used, prod, args, threads, chans, reader>>

\* BLPOP fails: `?` returns the error.
ClaimErr(w) ==
    /\ wk[w].pc = "claim"
    /\ wk' = [wk EXCEPT ![w] = Failed]
    /\ UNCHANGED <<store, ids, used, prod, args, threads, chans, reader>>

\* What follows an Err(_) of the GET of the record.
LoadFailed(infinite) == Missed(infinite)

\* GET of the record and serde_json::from_str.  A missing key is an Err(_)
\* (nil is no String), like any other failure of the GET.
Load(w) ==
    /\ wk[w].pc = "load"
    /\ IF Exists(wk[w].id)
       THEN wk' = [wk EXCEPT ![w].pc = "loaded",
                              ![w].job = FromJson(store[wk[w].id].json)]
       ELSE wk' = [wk EXCEPT ![w] = LoadFailed(args.infinite)]
    /\ UNCHANGED <<store, ids, used, prod, args, threads, chans, reader>>

\* The GET fails with a connection error: the same Err(_) arm.
LoadErr(w) ==
    /\ wk[w].pc = "load"
    /\ wk' = [wk EXCEPT ![w] = LoadFailed(args.infinite)]
    /\ UNCHANGED <<store, ids, used, prod, args, threads, chans, reader>>

\* job.status = RUNNING(None) and the SETEX with timeout + expire.
WriteRunning(w) ==
    /\ wk[w].pc = "loaded"
    /\ LET job == [wk[w].job EXCEPT !.status = RUNNING(None)] IN
          /\ store' = SetEx(wk[w].id, ToJson(job), args.timeout + args.expire)
          /\ wk' = [wk EXCEPT ![w].pc = "spawn", ![w].job = job]
    /\ UNCHANGED <<ids, used, prod, args, threads, chans, reader>>

WriteRunningErr(w) ==
    /\ wk[w].pc = "loaded"
    /\ wk' = [wk EXCEPT ![w] = Failed]
    /\ UNCHANGED <<store, ids, used, prod, args, threads, chans, reader>>

\* (mutant) one poll too many: `0..=(timeout * freq)`.
PollBudgetInclusive(timeout, freq) == timeout * freq + 1

\* `0..(timeout * freq)`: the number of polls.
PollBudget(timeout, freq) == timeout * freq

\* The milliseconds of one sleep: 1000 / freq, in integers.
MsPerSecond == 1000
SleepMs(freq) == MsPerSecond \div freq

\* `match job.status { RUNNING(_) => job.status = LOST, _ => {} }`
Reclassify(status) == IF status.tag = "RUNNING" THEN LOST ELSE status

\* (mutant) one channel per worker, made before the loop.
ChannelOutsideLoop(w) == 0 - w

\* channel(): a new channel in every iteration, named here by the number
\* of the claimed entry.
NewChannel(w) == wk[w].seq

\* channel() and thread::spawn with the clones of the id and the args.  With
\* no poll to make the loop is skipped and the status reclassified at once.
\* `quick` says that the handler returns in no time: before a sleep of
\* positive length that starts after the spawn has ended.
Spawn(w, quick) ==
    /\ wk[w].pc = "spawn"
    /\ LET c == NewChannel(w)
           none == PollBudget(args.timeout, args.freq) = 0 IN
          /\ chans' = [d \in DOMAIN chans \cup {c} |->
                           IF d \in DOMAIN chans THEN chans[d] ELSE <<>>]
          /\ threads' = threads \cup
                 {[tx |-> c, seq |-> wk[w].seq, id |-> wk[w].id,
                   args |-> wk[w].job.args, quick |-> quick,
                   ret |-> NoResult]}
          /\ wk' = [wk EXCEPT
                 ![w].rx = c, ![w].polls = 0,
                 ![w].pc = IF none THEN "final" ELSE "poll",
                 ![w].job.status = IF none THEN Reclassify(@) ELSE @]
    /\ UNCHANGED <<store, ids, used, prod, args, reader>>

\* (mutant) the payload of Ok is dropped.
HandlerStatusNoPayload(ret) ==
    IF ret.kind = "ok"
    THEN FINISHED(None)
    ELSE FAILED(ErrToString(ret.err), DisplayChain(ret.err))

\* The Status the thread sends for what the handler returned.
HandlerStatus(ret) ==
    IF ret.kind = "ok"
    THEN FINISHED(ret.val)
    ELSE FAILED(ErrToString(ret.err), DisplayChain(ret.err))

\* The handler returns `ret` and the thread sends and ends; a send to a
\* dropped receiver fails and unwrap_or(()) ignores it.
HandlerReturn(t, ret) ==
    /\ t \in threads
    /\ t.ret = NoResult
    /\ IF t.tx \in DOMAIN chans
       THEN /\ chans' = [chans EXCEPT ![t.tx] = Append(@, HandlerStatus(ret))]
            /\ threads' = (threads \ {t}) \cup {[t EXCEPT !.ret = ret]}
       ELSE /\ chans' = chans
            /\ threads' = threads \ {t}
    /\ UNCHANGED <<store, ids, used, prod, args, wk, reader>>

\* A quick handler of this iteration that has not returned yet.
QuickPending(w) ==
    \E t \in threads : t.tx = wk[w].rx /\ t.quick /\ t.ret = NoResult

\* One turn of the supervision loop: rx.try_recv().unwrap_or(RUNNING(None)),
\* the match that breaks, the sleep.  A turn after the first starts when the
\* sleep of the turn before has ended; after the last turn the status, if
\* still RUNNING, is reclassified.
Poll(w) ==
    /\ wk[w].pc = "poll"
    /\ (wk[w].polls > 0 /\ SleepMs(args.freq) > 0) => ~QuickPending(w)
    /\ LET c == wk[w].rx
           got == chans[c] # <<>>
           status == IF got THEN Head(chans[c]) ELSE RUNNING(None)
           over == \/ status.tag # "RUNNING"
                   \/ wk[w].polls + 1 >= PollBudget(args.timeout, args.freq) IN
          /\ chans' = IF got THEN [chans EXCEPT ![c] = Tail(@)] ELSE chans
          /\ wk' = [wk EXCEPT
                 ![w].polls = @ + 1,
                 ![w].job.status = IF over THEN Reclassify(status) ELSE status,
                 ![w].pc = IF over THEN "final" ELSE "poll"]
    /\ UNCHANGED <<store, ids, used, prod, args, threads, reader>>

\* The SETEX of the final record with `expire`.
FinalWrite(w) ==
    /\ wk[w].pc = "final"
    /\ store' = SetEx(wk[w].id, ToJson(wk[w].job), args.expire)
    /\ wk' = [wk EXCEPT ![w].pc = "written"]
    /\ UNCHANGED <<ids, used, prod, args, threads, chans, reader>>

\* Leaving the loop body, by return, break, continue or panic, drops rx.
DropRx(w) == [d \in DOMAIN chans \ {wk[w].rx} |-> chans[d]]
\* The threads left then: those still running.
Detach(w) == {t \in threads : t.tx # wk[w].rx \/ t.ret = NoResult}

FinalWriteErr(w) ==
    /\ wk[w].pc = "final"
    /\ wk' = [wk EXCEPT ![w] = Failed]
    /\ chans' = DropRx(w)
    /\ threads' = Detach(w)
    /\ UNCHANGED <<store, ids, used, prod, args, reader>>

\* (mutant) `fall` is ignored.
FatalWithoutFall(fall, status) == status = LOST
\* (mutant) every job that did not finish is fatal.
FatalUnlessFinished(fall, status) == fall /\ status.tag # "FINISHED"

\* `if fall && job.status == Status::LOST { panic!("LOST") }`
Fatal(fall, status) == fall /\ status = LOST

\* The end of the loop body: panic, break (Ok(())) or the next claim.
LoopEnd(w) ==
    /\ wk[w].pc = "written"
    /\ wk' = [wk EXCEPT ![w] =
                 IF Fatal(args.fall, wk[w].job.status)
                 THEN [Idle EXCEPT !.pc = "panicked"]
                 ELSE IF ~args.infinite THEN [Idle EXCEPT !.pc = "ok"]
                 ELSE Claiming]
    /\ chans' = DropRx(w)
    /\ threads' = Detach(w)
    /\ UNCHANGED <<store, ids, used, prod, args, reader>>

\* ------------------------------------------ Queue::status, Queue::result
\* The Job a GET of the record and from_str give, if the key exists.
Stored(k) == FromJson(store[k].json)

\* Queue::status(id): Ok(job.status), or the error of the GET of no key.
Status(k) ==
    IF Exists(k) THEN Reply("Ok", Stored(k).status, "", <<>>) ELSE RedisError

\* (mutant) a missing key reads as the default Job.
ResultOfDefault(k) ==
    LET status == Stored(k).status IN
    CASE status.tag = "FINISHED" -> Reply("Ok", status.val, "", <<>>)
      [] status.tag = "QUEUED"   -> Reply("JobQueued", None, "", <<>>)
      [] status.tag = "FAILED"   ->
            Reply("JobFailed", None, status.message, status.backtrace)
      [] status.tag = "LOST"     -> Reply("JobLost", None, "", <<>>)
      [] status.tag = "RUNNING"  -> Reply("JobRunning", None, "", <<>>)

\* Queue::result(id)
Result(k) ==
    IF ~Exists(k) THEN RedisError
    ELSE LET status == Stored(k).status IN
         CASE status.tag = "FINISHED" -> Reply("Ok", status.val, "", <<>>)
           [] status.tag = "QUEUED"   -> Reply("JobQueued", None, "", <<>>)
           [] status.tag = "FAILED"   ->
                 Reply("JobFailed", None, status.message, status.backtrace)
           [] status.tag = "LOST"     -> Reply("JobLost", None, "", <<>>)
           [] status.tag = "RUNNING"  -> Reply("JobRunning", None, "", <<>>)

\* The reply of the GET of the record: the JSON text, or nil.
Get(k) == IF Exists(k) THEN Some(store[k].json) ELSE None

\* The call before was a call of fn(k) that got the same reply of its GET.
Again(fn, k) == reader.fn = fn /\ reader.k = k /\ reader.json = Get(k)

\* (mutant) GETDEL for GET.
StatusCallDeletes(k) ==
    /\ reader' = [fn |-> "status", k |-> k, json |-> Get(k),
                  reply |-> Status(k), again |-> Again("status", k),
                  since |-> TRUE]
    /\ store' = [store EXCEPT ![k] = Nil]
    /\ UNCHANGED <<ids, used, prod, args, wk, threads, chans>>

\* A client calls Queue::status(id); `k` is any id, of a job or not.
StatusCall(k) ==
    /\ reader' = [fn |-> "status", k |-> k, json |-> Get(k),
                  reply |-> Status(k), again |-> Again("status", k),
                  since |-> TRUE]
    /\ UNCHANGED <<store, ids, used, prod, args, wk, threads, chans>>

\* A client calls Queue::result(id).
ResultCall(k) ==
    /\ reader' = [fn |-> "result", k |-> k, json |-> Get(k),
                  reply |-> Result(k), again |-> Again("result", k),
                  since |-> TRUE]
    /\ UNCHANGED <<store, ids, used, prod, args, wk, threads, chans>>

\* ----------------------------------------------------------- specification
Next ==
    \/ \E k \in JobIds : Expire(k)
    \/ \E id \in {None} \cup {Some(k) : k \in JobIds}, expire \in Expires :
          EnqueueSet(id, expire)
    \/ EnqueuePush
    \/ EnqueuePushErr
    \/ Drop
    \/ \E w \in Workers : StartWork(w)
    \/ \E w \in Workers : Claim(w)
    \/ \E w \in Workers : ClaimTimeout(w)
    \/ \E w \in Workers : ClaimErr(w)
    \/ \E w \in Workers : Load(w)
    \/ \E w \in Workers : LoadErr(w)
    \/ \E w \in Workers : WriteRunning(w)
    \/ \E w \in Workers : WriteRunningErr(w)
    \/ \E w \in Workers, quick \in BOOLEAN : Spawn(w, quick)
    \/ \E t \in threads, ret \in JobResults : HandlerReturn(t, ret)
    \/ \E w \in Workers : Poll(w)
    \/ \E w \in Workers : FinalWrite(w)
    \/ \E w \in Workers : FinalWriteErr(w)
    \/ \E w \in Workers : LoopEnd(w)

Spec == Init /\ [][Next]_vars

\* The queue with a client that reads: the producer, the first worker and
\* the calls of status and result.  What a call returns depends on the
\* records only, so the worker runs with one setting of its poll budget.
InitRead == Init /\ args.timeout = MaxTimeout /\ args.freq = 1

OneWorker == \A w \in Workers \ {1} : wk'[w] = wk[w]

NextRead ==
    \/ Next /\ OneWorker
    \/ \E k \in JobIds : StatusCall(k)
    \/ \E k \in JobIds : ResultCall(k)

SpecRead == InitRead /\ [][NextRead]_vars

\* A single-claim worker (infinite = false) that keeps running, beside the
\* producer: when the store answers its next command, or its sleep ends, it
\* takes that step; a handler that returns in no time does return.  Nothing
\* makes the producer call, a handler of another kind return, or a command
\* fail.
InitLive ==
    /\ store = [k \in JobIds |-> Nil]
    /\ ids = <<>>
    /\ used = {}
    /\ prod = [pc |-> "idle", calls |-> 0, id |-> 0, dropped |-> 0]
    /\ args \in WorkArgs
    /\ ~args.infinite
    /\ wk = [w \in Workers |-> Idle]
    /\ threads = {}
    /\ chans = [c \in {} |-> <<>>]
    /\ reader = NoCall

Step(w) ==
    \/ Claim(w) \/ ClaimTimeout(w) \/ Load(w) \/ WriteRunning(w)
    \/ (\E quick \in BOOLEAN : Spawn(w, quick))
    \/ Poll(w) \/ FinalWrite(w) \/ LoopEnd(w)

QuickReturn == \E t \in threads, ret \in JobResults : t.quick /\ HandlerReturn(t, ret)

Fairness == WF_vars(QuickReturn) /\ \A w \in Workers : WF_vars(Step(w))

NextLive == Next /\ OneWorker

SpecLive == InitLive /\ [][NextLive]_vars /\ Fairness

\* ------------------------------------------------------------------ claims
\* The thread a worker spawned in its current iteration, if any.
Mine(w) == {t \in threads : t.tx = wk[w].rx}

\* C10: claims are FIFO.  An entry a worker has popped was pushed before
\* every entry still pending, and the pending entries lie in the order of
\* their pushes; so of two ids pushed one after the other, the later one is
\* never claimed while the earlier one is pending.
C10_ClaimsAreFifo ==
    /\ \A i, j \in 1..Len(ids) : i < j => ids[i].seq < ids[j].seq
    /\ \A w \in Workers : \A i \in 1..Len(ids) :
          wk[w].seq > 0 => wk[w].seq < ids[i].seq

\* Two single-claim runs: the first has claimed the entry pushed first, the
\* second the entry pushed after it.
C10_Witness ==
    /\ ~args.infinite
    /\ \E w, v \in Workers :
          /\ wk[w].seq = 1 /\ wk[w].pc = "written"
          /\ wk[v].seq = 2 /\ wk[v].pc = "load"

\* The step of w that is its final SETEX, and a step w takes after it.
Persists(w) == wk[w].pc = "final" /\ wk'[w].pc = "written"
Leaves(w) == wk[w].pc = "written" /\ wk'[w] # wk[w]

\* C5: a worker panics exactly when it leaves an iteration whose job is LOST
\* and `fall` is set; the final SETEX of the LOST record, with `expire` as
\* its TTL, is the step before; a worker that has panicked does nothing more.
C5_LostIsFatal ==
    [][\A w \in Workers :
        /\ (Persists(w) /\ wk[w].job.status = LOST)
              => store'[wk[w].id] = [json |-> ToJson([id |-> wk[w].job.id,
                     status |-> LOST, args |-> wk[w].job.args]), ttl |-> args.expire]
        /\ Leaves(w)
              => (wk'[w].pc = "panicked" <=> (args.fall /\ wk[w].job.status = LOST))
        /\ (wk'[w].pc = "panicked" /\ wk[w].pc # "panicked") => wk[w].pc = "written"
        /\ wk[w].pc = "panicked" => wk'[w] = wk[w]]_vars

C5_Witness ==
    \E w \in Workers : wk[w].pc = "panicked" /\ args.fall

\* The handler of w's iteration has not signalled completion.
Unsignalled(w) == Mine(w) # {} /\ \A t \in Mine(w) : t.ret = NoResult

\* C4: a worker never polls more than timeout * freq times; when the handler
\* has not signalled completion the worker has polled exactly that often
\* before its final SETEX, which stores LOST; and with fall false and
\* infinite true the worker then goes on to the next claim.
C4_NeverCompleting ==
    [][\A w \in Workers :
        /\ wk'[w].polls <= args.timeout * args.freq
        /\ (Persists(w) /\ Unsignalled(w))
              => /\ wk[w].polls = args.timeout * args.freq
                 /\ Status(wk[w].id)' = Reply("Ok", LOST, "", <<>>)
        /\ (Leaves(w) /\ wk[w].job.status = LOST /\ ~args.fall /\ args.infinite)
              => wk'[w].pc = "claim"]_vars

C4_Witness ==
    \E w \in Workers :
        /\ wk[w].pc = "written" /\ Unsignalled(w)
        /\ wk[w].polls = 2 /\ wk[w].job.status = LOST
        /\ Status(wk[w].id) = Reply("Ok", LOST, "", <<>>)
        /\ ~args.fall /\ args.infinite

\* What status(id) and result(id) return for a job that FINISHED with o.
FinishedWith(k, o) ==
    /\ Status(k) = Reply("Ok", FINISHED(o), "", <<>>)
    /\ Result(k) = Reply("Ok", o, "", <<>>)

FailedWith(k, e) ==
    /\ Status(k).kind = "Ok"
    /\ Status(k).val.tag = "FAILED" /\ Status(k).val.message = e.msg
    /\ Result(k).kind = "JobFailed" /\ Result(k).message = e.msg

\* w ends its iteration without an error and without stopping for it.
GoesOn(w) == wk'[w].pc = (IF args.infinite THEN "claim" ELSE "ok")

Received(w, t) == t.ret # NoResult /\ chans[wk[w].rx] = <<>>

Late(t) == t.ret = NoResult /\ \A w \in Workers : wk[w].seq # t.seq

\* C7: the status a worker is about to store, or has stored, is LOST or what
\* the handler of this very iteration sent; and when a handler returns after
\* its worker has left the iteration, no record, no worker and no channel
\* changes.
C7_LateOutcomeIsDropped ==
    [][/\ \A w \in Workers :
            wk'[w].pc \in {"final", "written"}
                => \/ wk'[w].job.status = LOST
                   \/ \E t \in threads' :
                         /\ t.tx = wk'[w].rx /\ t.seq = wk'[w].seq
                         /\ t.ret # NoResult
                         /\ wk'[w].job.status = HandlerStatus(t.ret)
       /\ \A t \in threads :
            (Late(t) /\ t \notin threads')
                => UNCHANGED <<store, ids, wk, chans>>]_vars

\* A handler still runs though its job was stored as LOST and its worker
\* supervises another job.
C7_Witness ==
    \E t \in threads : \E w \in Workers :
        /\ Late(t)
        /\ Exists(t.id) /\ Stored(t.id).status = LOST
        /\ wk[w].pc = "poll" /\ wk[w].id # t.id

\* C1 as claimed, for a reader that finds the record: between the two SETEX
\* of a worker status(id) is RUNNING, after the second it is the final
\* status, one of FINISHED, FAILED and LOST.
C1_ReaderSeesRunningThenFinal ==
    \A w \in Workers :
        (wk[w].id \in JobIds /\ Exists(wk[w].id)) =>
            /\ wk[w].pc \in {"spawn", "poll", "final"}
                  => Status(wk[w].id).val = RUNNING(None)
            /\ wk[w].pc = "written"
                  => /\ Status(wk[w].id).val = wk[w].job.status
                     /\ Terminal(wk[w].job.status)

\* C6 as claimed: a record that is FINISHED, FAILED or LOST keeps that
\* status as long as it is stored.
C6_TerminalIsFinal ==
    [][\A k \in JobIds :
        (Exists(k) /\ Terminal(Stored(k).status) /\ Exists(k)')
            => Stored(k)'.status = Stored(k).status]_vars

\* w has claimed k and not yet stored its final record.
Owns(w, k) ==
    wk[w].id = k /\ wk[w].pc \in {"load", "loaded", "spawn", "poll", "final"}

\* C8 as claimed: while a worker owns an id, every SETEX of that id's record
\* is a step of that worker.
C8_SingleWriter ==
    [][\A w \in Workers : \A k \in JobIds :
        (Owns(w, k) /\ Exists(k)' /\ store'[k] # store[k])
            => wk'[w] # wk[w]]_vars

\* C9 as claimed: a store command of Queue::work that fails, be it the
\* BLPOP, the GET of a record that exists, or one of the two SETEX, makes
\* Queue::work return the error.
C9_StoreErrorsEndTheLoop ==
    [][\A w \in Workers :
        (\/ ClaimErr(w)
         \/ LoadErr(w) /\ Exists(wk[w].id)
         \/ WriteRunningErr(w)
         \/ FinalWriteErr(w))
            => wk'[w].pc = "err"]_vars

\* The entries of the pending list that hold the id k.
Pending(k) == {i \in 1..Len(ids) : ids[i].id = k}

\* C11 as claimed, for a record that has not expired meanwhile: when enqueue
\* returns (the step of its RPUSH), status(id) of the id it returns is
\* QUEUED and the id is in the pending list exactly once.
C11_EnqueuedIsQueuedOnce ==
    [][\A k \in JobIds :
        (EnqueuePush /\ prod.id = k)
            => /\ Exists(k)' => Status(k)' = Reply("Ok", QUEUED, "", <<>>)
               /\ Cardinality(Pending(k)') = 1]_vars

\* C12: a step of a worker from its BLPOP or its GET back to the head of
\* the loop, or out of it with Ok(()), is a missed claim: it changes no
\* record, starts no handler and makes no channel, and it ends Queue::work
\* with Ok(()) exactly when `infinite` is false; and with no record to load
\* a missed claim is all the worker does: it neither goes on nor fails.
C12_MissedClaimWritesNothing ==
    [][\A w \in Workers :
        /\ (/\ wk[w].pc \in {"claim", "load"} /\ wk'[w] # wk[w]
            /\ wk'[w].pc \in {"claim", "ok"})
              => /\ UNCHANGED <<store, ids, threads, chans>>
                 /\ wk'[w].pc = (IF args.infinite THEN "claim" ELSE "ok")
        /\ (wk[w].pc = "load" /\ ~Exists(wk[w].id) /\ wk'[w] # wk[w])
              => wk'[w].pc \in {"claim", "ok"}
        /\ (wk[w].pc = "claim" /\ ids = <<>> /\ wk'[w] # wk[w])
              => wk'[w].pc \in {"ok", "err"}]_vars

\* One Queue::work has returned Ok(()) after a claim it missed, another has
\* popped an id whose record is gone and is about to miss; no record was
\* written by a worker and no handler runs.
C12_Witness ==
    \E w, v \in Workers :
        /\ wk[w].pc = "ok" /\ ~args.infinite
        /\ wk[v].pc = "load" /\ ~Exists(wk[v].id)
        /\ threads = {}
        /\ \A k \in JobIds : Exists(k) => Stored(k).status = QUEUED

\* The step of w that is its SETEX of the RUNNING record.
Starts(w) == wk[w].pc = "loaded" /\ wk'[w].pc = "spawn"

\* C13: every step that writes a record sets its TTL: enqueue to the
\* `expire` it was called with, the RUNNING write of a worker to
\* timeout + expire, its final write to expire, and no other step writes a
\* record.  The sleeps a worker has asked for since its RUNNING write never
\* add up to more than `timeout` seconds, which is less than the TTL that
\* write gave the record.
C13_EveryWriteSetsTtl ==
    [][/\ \A id \in {None} \cup {Some(k) : k \in JobIds}, e \in Expires :
            EnqueueSet(id, e) => store'[prod'.id].ttl = e
       /\ \A w \in Workers :
            /\ Starts(w)
                  => /\ store'[wk[w].id].ttl = args.timeout + args.expire
                     /\ args.timeout * MsPerSecond
                            < store'[wk[w].id].ttl * MsPerSecond
            /\ Persists(w) => store'[wk[w].id].ttl = args.expire
            /\ (wk[w].pc = "poll" /\ args.freq > 0)
                  => wk[w].polls * (MsPerSecond \div args.freq)
                        <= args.timeout * MsPerSecond
       /\ \A k \in JobIds :
            (store'[k] # store[k] /\ Exists(k)')
                => \/ prod.pc = "idle" /\ prod'.pc = "push" /\ prod'.id = k
                   \/ \E w \in Workers :
                         wk[w].id = k /\ (Starts(w) \/ Persists(w))]_vars

\* A worker has made the last poll of a budget of two for a record that
\* still has the TTL of the RUNNING write, longer than that of enqueue.
C13_Witness ==
    \E w \in Workers :
        /\ wk[w].pc = "final" /\ wk[w].polls = 2
        /\ Status(wk[w].id) = Reply("Ok", RUNNING(None), "", <<>>)
        /\ store[wk[w].id].ttl = args.timeout + args.expire
        /\ store[wk[w].id].ttl > MaxExpire

\* C14: a Queue::drop empties the pending list and changes no record, so
\* status(id) and result(id) of every job return what they returned before
\* it; no worker and no handler is touched; and an entry that was pending
\* at a drop is gone for good: the list holds, and the workers claim after
\* it, only entries pushed later.
C14_DropOnlyClearsPending ==
    [][/\ prod'.dropped # prod.dropped
            => /\ ids' = <<>>
               /\ store' = store
               /\ \A k \in JobIds :
                     Status(k)' = Status(k) /\ Result(k)' = Result(k)
               /\ UNCHANGED <<wk, threads, chans>>
       /\ \A i \in 1..Len(ids') : ids'[i].seq > prod'.dropped
       /\ \A w \in Workers :
            (wk[w].pc = "claim" /\ wk'[w].pc = "load")
                => wk'[w].seq > prod.dropped]_vars

\* The first job was pending at a drop: its record is still QUEUED and no
\* longer pending, and a worker has claimed the job enqueued after the drop.
C14_Witness ==
    \E k \in JobIds : \E w \in Workers :
        /\ prod.dropped = 1
        /\ Stored(k).args = ArgsOf(1)
        /\ Status(k) = Reply("Ok", QUEUED, "", <<>>)
        /\ Pending(k) = {}
        /\ wk[w].pc = "load" /\ wk[w].seq = 2 /\ wk[w].id # k

\* The status in the JSON text of the record k.
Json(k) == store[k].json.status

\* C15: by the JSON of the record, result(id) is Ok with the stored option
\* for FINISHED, and the error JobQueued, JobRunning, JobLost or
\* JobFailed with the stored message and backtrace for the other four
\* variants; status(id) is then Ok; with no record both are the error of
\* the store.
C15_ResultByStatus ==
    \A k \in JobIds :
        IF ~Exists(k)
        THEN Status(k) = RedisError /\ Result(k) = RedisError
        ELSE /\ Status(k).kind = "Ok"
             /\ Json(k) = <<"str", "QUEUED">>
                   => Result(k) = Reply("JobQueued", None, "", <<>>)
             /\ Json(k) = <<"str", "LOST">>
                   => Result(k) = Reply("JobLost", None, "", <<>>)
             /\ (Json(k)[1] = "obj" /\ Json(k)[2] = "RUNNING")
                   => Result(k) = Reply("JobRunning", None, "", <<>>)
             /\ Json(k) = <<"obj", "FINISHED", <<"null">>>>
                   => Result(k) = Reply("Ok", None, "", <<>>)
             /\ \A r \in {"r"} : Json(k) = <<"obj", "FINISHED", <<"str", r>>>>
                   => Result(k) = Reply("Ok", Some(r), "", <<>>)
             /\ (Json(k)[1] = "obj" /\ Json(k)[2] = "FAILED")
                   => Result(k) = Reply("JobFailed", None, Json(k)[3].message,
                                        Json(k)[3].backtrace)
             /\ Result(k).kind \in
                   {"Ok", "JobQueued", "JobRunning", "JobLost", "JobFailed"}

\* One job is stored as FAILED and result(id) fails with JobFailed and the
\* handler's message; the record of the other has expired and status(id)
\* and result(id) fail with the error of the store.
C15_Witness ==
    \E k, j \in JobIds :
        /\ Result(k).kind = "JobFailed" /\ Result(k).message = "boom"
        /\ j \in used /\ ~Exists(j)
        /\ Status(j) = RedisError /\ Result(j) = RedisError

\* The step is a call of status or result.
IsCall == reader' # reader /\ reader'.since

\* C16 as claimed: a call of status or result changes no record and not the
\* pending list, and when it follows a call of the same function for the
\* same id, which found the record, with no claim of a worker and no expiry
\* in between, it returns what that call returned.
C16_ReadsRepeat ==
    [][IsCall =>
        /\ UNCHANGED <<store, ids>>
        /\ (/\ reader.since /\ reader.json # None
            /\ reader.fn = reader'.fn /\ reader.k = reader'.k)
              => reader'.reply = reader.reply]_vars

\* C16, amended: a call of status or result changes nothing but what the
\* caller gets, and when it follows a call of the same function for the
\* same id and finds the record as that call found it (not written and not
\* expired in between), it returns what that call returned.
C16_ReadsRepeatOnSameRecord ==
    [][IsCall =>
        /\ UNCHANGED <<store, ids, used, prod, args, wk, threads, chans>>
        /\ reader'.again => reader'.reply = reader.reply]_vars

\* result(id) of a FINISHED job has been called twice in a row, after the
\* worker has returned.
C16_Witness ==
    /\ reader.fn = "result" /\ reader.again /\ reader.since
    /\ reader.reply = Reply("Ok", Some("r"), "", <<>>)
    /\ wk[1].pc = "ok"

\* C17 as claimed: a handler that returns in no time, under a budget of at
\* least one poll with sleeps of positive length, has sent its outcome
\* before the budget has elapsed (before the first sleep has ended); when
\* it has sent it, the final SETEX does not store LOST.
C17_LostOnlyAfterTimeout ==
    [][\A w \in Workers : \A t \in Mine(w) :
        (/\ Persists(w) /\ t.quick /\ t.ret # NoResult
         /\ args.timeout * args.freq >= 1
         /\ MsPerSecond \div args.freq > 0)
            => Stored(wk[w].id)'.status # LOST]_vars

\* Queue::work of w has ended: with Ok(()), with an error, or in a panic.
Ended(w) == wk[w].pc \in {"ok", "err", "panicked"}

\* C18 as claimed: with infinite false a worker never comes back to the
\* BLPOP once it has left it, and every Queue::work that has started ends.
C18_SingleClaimTerminates ==
    /\ [][\A w \in Workers :
            wk'[w].pc = "claim" => wk[w].pc \in {"idle", "claim"}]_vars
    /\ \A w \in Workers : (wk[w].pc # "idle") ~> Ended(w)

\* C18, amended: the same for a `wait` of more than 0 seconds.
C18_SingleClaimTerminatesWithWait ==
    /\ [][\A w \in Workers :
            wk'[w].pc = "claim" => wk[w].pc \in {"idle", "claim"}]_vars
    /\ \A w \in Workers : (wk[w].pc # "idle" /\ args.wait > 0) ~> Ended(w)

\* A single-claim Queue::work has returned Ok(()) after storing LOST for a
\* handler that never returned.
C18_Witness ==
    \E w \in Workers : \E t \in threads :
        /\ wk[w].pc = "ok" /\ ~args.infinite /\ args.wait > 0
        /\ t.ret = NoResult /\ ~t.quick
        /\ Status(t.id) = Reply("Ok", LOST, "", <<>>)

\* w is between its pop of an entry and the final SETEX for it.
Busy(w) == wk[w].pc \in {"load", "loaded", "spawn", "poll", "final"}

\* C19: between its pop of an entry and its final SETEX a worker holds that
\* entry and no other (it leaves it only by ending the iteration), it goes
\* through pop, load, RUNNING write and spawn in this order and once, and
\* a handler is started only by a worker at its spawn, one for the entry it
\* holds.
C19_OneCycleAtATime ==
    [][/\ \A w \in Workers :
            /\ Busy(w) => \/ wk'[w].seq = wk[w].seq /\ wk'[w].id = wk[w].id
                          \/ ~Busy(w)' /\ wk'[w].seq = 0
            /\ (wk'[w].pc # wk[w].pc /\ Busy(w)') =>
                  \/ wk[w].pc = "claim"  /\ wk'[w].pc = "load"
                  \/ wk[w].pc = "load"   /\ wk'[w].pc = "loaded"
                  \/ wk[w].pc = "loaded" /\ wk'[w].pc = "spawn"
                  \/ wk[w].pc = "spawn"  /\ wk'[w].pc \in {"poll", "final"}
                  \/ wk[w].pc = "poll"   /\ wk'[w].pc = "final"
       /\ \A t \in threads' \ threads :
            \/ \E u \in threads : u.ret = NoResult /\ t = [u EXCEPT !.ret = t.ret]
            \/ /\ \E w \in Workers :
                      /\ wk[w].pc = "spawn" /\ wk'[w].pc # "spawn"
                      /\ t.seq = wk[w].seq /\ t.id = wk[w].id
                /\ \A u \in threads : u.seq # t.seq
                /\ Cardinality(threads' \ threads) = 1]_vars

\* The only worker that runs supervises its second job while the handler
\* of its first, stored as LOST, has not returned.
C19_Witness ==
    \E w \in Workers : \E t \in threads :
        /\ \A v \in Workers \ {w} : wk[v].pc = "idle"
        /\ wk[w].pc = "poll" /\ wk[w].seq = 2
        /\ t.seq = 1 /\ t.ret = NoResult /\ t.id # wk[w].id
        /\ Status(t.id) = Reply("Ok", LOST, "", <<>>)

\* The entries of the pending list, as a set.
Entries(list) == {list[i] : i \in 1..Len(list)}

\* C20: an entry of the pending list is held by one worker at most and,
\* once popped, is pending no more; only the RPUSH of enqueue adds an
\* entry, a new one, so no step of a worker puts an id back, whether its
\* load is missed or a command fails.  The Job a worker loads is the record
\* of the id it popped; at most one handler is started for an entry, by the
\* worker that holds it, with that id and the args of the Job it loaded.
C20_AtMostOnce ==
    [][/\ \A w, v \in Workers :
            (w # v /\ wk[w].seq > 0) => wk[w].seq # wk[v].seq
       /\ \A w \in Workers : \A e \in Entries(ids) : wk[w].seq # e.seq
       /\ \A e \in Entries(ids') \ Entries(ids) :
            /\ prod.pc = "push" /\ prod'.pc = "idle"
            /\ e = [id |-> prod.id, seq |-> prod.calls]
            /\ \A w \in Workers : wk[w].seq < e.seq
            /\ \A t \in threads : t.seq < e.seq
       /\ \A w \in Workers :
            /\ (wk[w].pc = "claim" /\ wk'[w].pc = "load")
                  => /\ [id |-> wk'[w].id, seq |-> wk'[w].seq] \in Entries(ids)
                     /\ Len(ids') = Len(ids) - 1
            /\ (wk[w].pc = "load" /\ wk'[w].pc = "loaded")
                  => wk'[w].job = Stored(wk[w].id)
            /\ (wk[w].pc = "spawn" /\ wk'[w].pc # "spawn" /\ wk'[w].pc # "err")
                  => \E t \in threads' \ threads :
                        /\ t.seq = wk[w].seq /\ t.id = wk[w].id
                        /\ t.args = wk[w].job.args
       /\ \A t, u \in threads : t.seq = u.seq => t = u
       /\ \A t \in threads' \ threads : \A u \in threads :
            u.seq = t.seq => (u.ret = NoResult /\ t = [u EXCEPT !.ret = t.ret])]_vars

\* Two workers supervise the handlers of the two entries pushed, each
\* handler with the id and the args of its job.
C20_Witness ==
    \E w, v \in Workers : \E t, u \in threads :
        /\ wk[w].pc = "poll" /\ wk[w].seq = 1 /\ t.seq = 1
        /\ wk[v].pc = "poll" /\ wk[v].seq = 2 /\ u.seq = 2
        /\ t.id = wk[w].id /\ t.args = ArgsOf(1)
        /\ u.id = wk[v].id /\ u.args = ArgsOf(2)
        /\ ids = <<>>

====
